---- MODULE Spec2Model ----
(***************************************************************************)
(* ExampleService (compodoc-issue-check.service.ts and its getter-only     *)
(* sibling): a service that keeps the configuration object it was          *)
(* constructed with and passes reads and writes of `exampleOption` through *)
(* to it.  The model is a small JavaScript heap: configuration objects     *)
(* are keyed records held by reference, services are instances holding one *)
(* reference (or null / undefined), and each call of the constructor, the  *)
(* getter, the setter and getExampleOption() is one action whose outcome   *)
(* (a returned value or a thrown TypeError) is recorded in lastOp.         *)
(***************************************************************************)
EXTENDS Integers, Sequences, FiniteSets

\* ------------------------------------------------------------- bounds
MaxServices == 2
NumObjects == 2

\* ------------------------------------------------------------- values
\* JavaScript values, tagged so that values of different types compare.
Str(x) == [t |-> "string", v |-> x]
Ref(o) == [t |-> "object", v |-> o]
Null == [t |-> "null", v |-> 0]
Undefined == [t |-> "undefined", v |-> 0]
TypeError == [t |-> "TypeError", v |-> 0]

\* The string literals the source's examples pass around.
Strings == {"custom-value", "new-value"}
Val == {Str(x) : x \in Strings}

\* Configuration objects live on the heap and are named by their identity.
Objs == 1..NumObjects
Keys == {"exampleOption", "otherOption"}

\* What `injectedConfig: any` is given: an object, or null (Angular's
\* @Optional() without a provider), or undefined (a direct `new` without one).
Absent == {Null, Undefined}
Configs == {Ref(o) : o \in Objs} \cup Absent

\* The two files export the same class: the full one and the getter-only one.
Variants == {"full", "getterOnly"}

\* How a call ends.
Return(v) == [kind |-> "return", value |-> v]
Throw(e) == [kind |-> "throw", value |-> e]

\* Who made a write: a service instance through its setter, or the owner of
\* the object through its own reference.
Via(s) == [who |-> "service", id |-> s]
Owner == [who |-> "owner", id |-> 0]
NoWrite == [by |-> [who |-> "nobody", id |-> 0], value |-> Undefined]

\* The objects a caller may hand over: with or without exampleOption, beside
\* otherOption, which stands for every field the service never names.
Shapes == UNION {[ks -> Val] : ks \in SUBSET Keys}
InitialObjects ==
    {f \in Shapes : "otherOption" \in DOMAIN f /\ f["otherOption"] = Str("custom-value")}

VARIABLES
    variant,    \* which of the two files' ExampleService is in use
    heap,       \* heap[o]: configuration object o, a function from its keys
    services,   \* services[s]: instance s, in order of construction
    console,    \* what console.log has been given, in order
    lastWrite,  \* history: per object, the latest exampleOption write
    lastOp      \* history: the last call, its argument and how it ended

vars == <<variant, heap, services, console, lastWrite, lastOp>>

Instances == 1..Len(services)

\* ------------------------------------------------------- the language
\* obj.key on a reference: a TypeError on null / undefined, the stored value
\* when the object has the key, undefined when it has not.
GetProperty(h, r, k) ==
    IF r \in Absent THEN Throw(TypeError)
    ELSE IF k \in DOMAIN h[r.v] THEN Return(h[r.v][k])
    ELSE Return(Undefined)

\* obj.key = value on an object: the key is created or overwritten in place.
PutProperty(h, o, k, value) ==
    [h EXCEPT ![o] = [k2 \in (DOMAIN h[o]) \cup {k} |-> IF k2 = k THEN value ELSE h[o][k2]]]

\* ----------------------------------------------------------- the class
\* get exampleOption(): return this.injectedConfig.exampleOption;
exampleOptionGet_WrongKey(s) ==
    GetProperty(heap, services[s].injectedConfig, "otherOption")

exampleOptionGet_OptionalChaining(s) ==
    IF services[s].injectedConfig \in Absent THEN Return(Undefined)
    ELSE GetProperty(heap, services[s].injectedConfig, "exampleOption")

exampleOptionGet_Strict(s) ==
    LET r == services[s].injectedConfig IN
    IF r \notin Absent /\ "exampleOption" \notin DOMAIN heap[r.v] THEN Throw(TypeError)
    ELSE GetProperty(heap, r, "exampleOption")

exampleOptionGet(s) ==
    GetProperty(heap, services[s].injectedConfig, "exampleOption")

\* getExampleOption(): return this.exampleOption;
getExampleOption_Guarded(s) ==
    IF services[s].injectedConfig \in Absent THEN Return(Undefined)
    ELSE exampleOptionGet(s)

getExampleOption(s) ==
    exampleOptionGet(s)

\* set exampleOption(value): this.injectedConfig.exampleOption = value;
\* how the call ends ...
exampleOptionSet(s, value) ==
    IF services[s].injectedConfig \in Absent THEN Throw(TypeError)
    ELSE Return(Undefined)

\* ... and the heap it leaves.
exampleOptionSetHeap_Dropped(s, value) ==
    heap

exampleOptionSetHeap_WrongKey(s, value) ==
    LET r == services[s].injectedConfig IN
    IF r \in Absent THEN heap ELSE PutProperty(heap, r.v, "otherOption", value)

exampleOptionSetHeap_OnlyIfUnset(s, value) ==
    LET r == services[s].injectedConfig IN
    IF r \in Absent \/ "exampleOption" \in DOMAIN heap[r.v] THEN heap
    ELSE PutProperty(heap, r.v, "exampleOption", value)

exampleOptionSetHeap_Replace(s, value) ==
    LET r == services[s].injectedConfig IN
    IF r \in Absent THEN heap
    ELSE [heap EXCEPT ![r.v] = [k \in {"exampleOption"} |-> value]]

exampleOptionSetHeap(s, value) ==
    LET r == services[s].injectedConfig IN
    IF r \in Absent THEN heap ELSE PutProperty(heap, r.v, "exampleOption", value)

\* `private readonly injectedConfig`: no accessor assigns the field.
exampleOptionSetServices_Default(s, value) ==
    IF services[s].injectedConfig \in Absent
    THEN [services EXCEPT ![s].injectedConfig = Ref(1)]
    ELSE services

exampleOptionSetServices(s, value) ==
    services

\* ------------------------------------------------------------ history
\* The latest write of exampleOption on object o, and who made it.
Written(o, by, value) == [lastWrite EXCEPT ![o] = [by |-> by, value |-> value]]

Op(name, target, arg, outcome) ==
    [op |-> name, target |-> target, arg |-> arg, outcome |-> outcome]

\* ------------------------------------------------------------ actions
Init ==
    /\ variant \in Variants
    /\ heap \in [Objs -> InitialObjects]
    /\ services = <<>>
    /\ console = <<>>
    /\ lastWrite = [o \in Objs |-> NoWrite]
    /\ lastOp = Op("none", 0, Undefined, Return(Undefined))

\* new ExampleService(injectedConfig): keeps the reference and logs it.
Construct(c) ==
    /\ Len(services) < MaxServices
    /\ services' = Append(services, [injectedConfig |-> c])
    /\ console' = Append(console, c)
    /\ lastOp' = Op("new", Len(services) + 1, c, Return(Undefined))
    /\ UNCHANGED <<variant, heap, lastWrite>>

\* service.exampleOption
ReadProperty(s) ==
    /\ lastOp' = Op("get", s, Undefined, exampleOptionGet(s))
    /\ UNCHANGED <<variant, heap, services, console, lastWrite>>

\* service.getExampleOption(), which only the full class has
CallGetExampleOption(s) ==
    /\ variant = "full"
    /\ lastOp' = Op("method", s, Undefined, getExampleOption(s))
    /\ UNCHANGED <<variant, heap, services, console, lastWrite>>

\* service.exampleOption = value, which only the full class has
WriteProperty(s, value) ==
    /\ variant = "full"
    /\ heap' = exampleOptionSetHeap(s, value)
    /\ services' = exampleOptionSetServices(s, value)
    /\ lastOp' = Op("set", s, value, exampleOptionSet(s, value))
    /\ lastWrite' = IF exampleOptionSet(s, value).kind = "return"
                    THEN Written(services[s].injectedConfig.v, Via(s), value)
                    ELSE lastWrite
    /\ UNCHANGED <<variant, console>>

\* The owner of a configuration object uses its own reference to it.
OwnerWrite(o, value) ==
    /\ heap' = PutProperty(heap, o, "exampleOption", value)
    /\ lastWrite' = Written(o, Owner, value)
    /\ lastOp' = Op("ownerWrite", o, value, Return(Undefined))
    /\ UNCHANGED <<variant, services, console>>

OwnerRead(o) ==
    /\ lastOp' = Op("ownerRead", o, Undefined, GetProperty(heap, Ref(o), "exampleOption"))
    /\ UNCHANGED <<variant, heap, services, console, lastWrite>>

Next ==
    \/ \E c \in Configs : Construct(c)
    \/ \E s \in Instances : ReadProperty(s)
    \/ \E s \in Instances : CallGetExampleOption(s)
    \/ \E s \in Instances, value \in Val : WriteProperty(s, value)
    \/ \E o \in Objs, value \in Val : OwnerWrite(o, value)
    \/ \E o \in Objs : OwnerRead(o)

Spec == Init /\ [][Next]_vars

\* ------------------------------------------------------------- claims
ConfigOf(s) == services[s].injectedConfig
Holds(s, o) == s \in Instances /\ ConfigOf(s) = Ref(o)
ServiceReads == {"get", "method"}
Accessors == {"get", "method", "set"}
ReadBy(s) == lastOp.op \in ServiceReads /\ lastOp.target = s

\* C1: a read through a service instance, by the getter or by
\* getExampleOption(), of an object whose latest exampleOption write went
\* through that same instance's setter returns exactly the written value.
C1_ReadAfterWrite ==
    \A s \in Instances, o \in Objs :
        (ReadBy(s) /\ Holds(s, o) /\ lastWrite[o].by = Via(s))
            => lastOp.outcome = Return(lastWrite[o].value)

C1_Witness ==
    \E s \in Instances, o \in Objs :
        /\ lastOp.op = "method" /\ lastOp.target = s
        /\ Holds(s, o) /\ lastWrite[o].by = Via(s)
        /\ lastOp.outcome = Return(Str("new-value"))

\* C2: in both classes, the getter of a service holding an object that has an
\* exampleOption field returns exactly the value the field holds.
C2_ReadPassthrough ==
    \A s \in Instances, o \in Objs :
        (lastOp.op = "get" /\ lastOp.target = s /\ Holds(s, o)
         /\ "exampleOption" \in DOMAIN heap[o])
            => lastOp.outcome = Return(heap[o]["exampleOption"])

C2_Witness ==
    \E s \in Instances, o \in Objs :
        /\ variant = "getterOnly"
        /\ lastOp.op = "get" /\ lastOp.target = s /\ Holds(s, o)
        /\ lastWrite[o] = NoWrite
        /\ lastOp.outcome = Return(Str("new-value"))

C4_AbsentConfigurationReadsUndefined ==
    \A s \in Instances :
        (ReadBy(s) /\ ConfigOf(s) \in Absent) => lastOp.outcome = Return(Undefined)

\* C5: whatever one read accessor has just produced (a value, or the
\* TypeError), the other read accessor produces in that same state.
C5_AccessorEquivalence ==
    \A s \in Instances :
        /\ (lastOp.op = "get" /\ lastOp.target = s /\ variant = "full")
               => lastOp.outcome = getExampleOption(s)
        /\ (lastOp.op = "method" /\ lastOp.target = s)
               => lastOp.outcome = exampleOptionGet(s)

C5_Witness ==
    \E s \in Instances :
        /\ lastOp.op = "method" /\ lastOp.target = s
        /\ ConfigOf(s) = Null
        /\ lastOp.outcome.kind = "throw"

\* C6: when the latest exampleOption write on an object went through one
\* instance's setter, a read through any other instance holding the object,
\* and a read by the owner through its own reference, return that value.
C6_SharedMutationVisibility ==
    \A o \in Objs :
        lastWrite[o].by.who = "service" =>
            /\ \A s \in Instances :
                (ReadBy(s) /\ Holds(s, o) /\ lastWrite[o].by # Via(s))
                    => lastOp.outcome = Return(lastWrite[o].value)
            /\ (lastOp.op = "ownerRead" /\ lastOp.target = o)
                    => lastOp.outcome = Return(lastWrite[o].value)

C6_Witness ==
    \E s1, s2 \in Instances, o \in Objs :
        /\ s1 # s2 /\ Holds(s1, o) /\ Holds(s2, o)
        /\ lastWrite[o].by = Via(s1)
        /\ lastOp.op = "get" /\ lastOp.target = s2
        /\ lastOp.outcome = Return(Str("new-value"))

\* C7: a read through a service whose object has no exampleOption key returns
\* undefined and throws nothing; a setter call on a held object leaves the key
\* present with the written value, which is what the getter then returns.
C7_MissingField ==
    \A s \in Instances, o \in Objs :
        Holds(s, o) =>
            /\ (ReadBy(s) /\ "exampleOption" \notin DOMAIN heap[o])
                   => lastOp.outcome = Return(Undefined)
            /\ (lastOp.op = "set" /\ lastOp.target = s)
                   => /\ "exampleOption" \in DOMAIN heap[o]
                      /\ exampleOptionGet(s) = Return(lastOp.arg)

C7_Witness ==
    \E s \in Instances, o \in Objs :
        /\ Holds(s, o) /\ ReadBy(s)
        /\ "exampleOption" \notin DOMAIN heap[o]
        /\ lastOp.outcome = Return(Undefined)

\* C8: no step changes the configuration reference of an existing service:
\* what it was given at construction (an object, null or undefined) it holds
\* ever after.
C8_FixedReference ==
    [][\A s \in Instances :
          /\ s \in 1..Len(services')
          /\ services'[s].injectedConfig = services[s].injectedConfig]_vars

C8_Witness ==
    \E s1, s2 \in Instances :
        /\ ConfigOf(s1) \in Absent /\ ConfigOf(s2) \notin Absent
        /\ lastOp.op = "set" /\ lastOp.target = s1
        /\ lastWrite[ConfigOf(s2).v].by = Via(s2)

\* C9: a read of an object's exampleOption, through any instance holding it
\* or by the owner, returns the value of the latest write on that object,
\* whoever made it.
C9_LastWriteWins ==
    \A o \in Objs :
        lastWrite[o] # NoWrite =>
            /\ \A s \in Instances :
                (ReadBy(s) /\ Holds(s, o)) => lastOp.outcome = Return(lastWrite[o].value)
            /\ (lastOp.op = "ownerRead" /\ lastOp.target = o)
                    => lastOp.outcome = Return(lastWrite[o].value)

C9_Witness ==
    \E s1, s2 \in Instances, o \in Objs :
        /\ s1 # s2 /\ Holds(s1, o) /\ Holds(s2, o)
        /\ lastWrite[o].by = Owner
        /\ ReadBy(s1)
        /\ heap[o]["exampleOption"] # Str("custom-value")

\* Field k of object o is the same after the step: present or not, and its value.
SameField(o, k) ==
    /\ (k \in DOMAIN heap'[o]) = (k \in DOMAIN heap[o])
    /\ k \in DOMAIN heap[o] => heap'[o][k] = heap[o][k]

\* C10: a successful setter call changes at most the exampleOption field of
\* the object its service holds; a getter call, a getExampleOption() call and
\* a failing setter call change no object, no service and no log line.
C10_Frame ==
    [][/\ (lastOp'.op = "set" /\ lastOp'.outcome.kind = "return") =>
            /\ \A o \in Objs, k \in Keys :
                  (Ref(o) # ConfigOf(lastOp'.target) \/ k # "exampleOption") => SameField(o, k)
            /\ services' = services /\ console' = console
       /\ (lastOp'.op \in ServiceReads \/ (lastOp'.op = "set" /\ lastOp'.outcome.kind = "throw")) =>
            (heap' = heap /\ services' = services /\ console' = console)]_vars

C10_Witness ==
    \E s \in Instances, o \in Objs :
        /\ lastOp.op = "set" /\ lastOp.target = s /\ Holds(s, o)
        /\ heap[o]["exampleOption"] = Str("new-value")
        /\ heap[o]["otherOption"] = Str("custom-value")
        /\ \E o2 \in Objs \ {o} : lastWrite[o2] = NoWrite

====
